---- MODULE Spec2Model ----
(***************************************************************************)
(* PHRIS risk-assessment core: the per-identity profile store and scorer   *)
(* (risk_engine.py), the speed estimator (tracker_utils.py), the zone      *)
(* classifier (zone_utils.py) and the frame loop with its alert throttle   *)
(* and periodic reaper (main.py).                                          *)
(*                                                                         *)
(* Time is counted in ticks, TicksPerSec ticks to the second; every        *)
(* threshold of the code that is written in seconds is multiplied by       *)
(* TicksPerSec.  The reads of time.time() inside one call of               *)
(* calculate_risk are microseconds apart and below the clock's resolution  *)
(* here: they return the same tick.  A speed is the exact quotient         *)
(* num/den of two integers (px/s), compared by cross-multiplication.       *)
(***************************************************************************)
EXTENDS Integers, Sequences, FiniteSets, TLC

VARIABLES
    clock,             \* time.time(): the wall clock, in ticks
    person_profiles,   \* risk_engine.person_profiles: id -> PersonProfile
    position_history,  \* tracker_utils.position_history: id -> hist
    risk_info,         \* the dict returned by the latest calculate_risk
    deleted,           \* the value returned by the latest cleanup_old_people
    obs_log,           \* history variable: id -> every evaluation of id so far
    frame_count,       \* main.frame_count
    total_alerts,      \* main.total_alerts
    last_alert_time,   \* main.last_alert_time
    current_time,      \* main.current_time of the frame being processed
    tracks,            \* main.tracks of the frame being processed
    pose_risks,        \* main.pose_risks of the frame being processed
    track_idx,         \* position of the for loop over tracks (1-based)
    critical_people,   \* main.critical_people
    pc,                \* position of the main loop
    calls,             \* number of engine calls made by the API driver
    danger_zones       \* zone_utils.DANGER_ZONES as the running program holds it

vars == <<clock, person_profiles, position_history, risk_info, deleted, obs_log,
          frame_count, total_alerts, last_alert_time, current_time, tracks,
          pose_risks, track_idx, critical_people, pc, calls, danger_zones>>

engine_vars == <<person_profiles, risk_info, obs_log>>
loop_vars == <<frame_count, total_alerts, last_alert_time, current_time, tracks,
               pose_risks, track_idx, critical_people, pc>>

----------------------------------------------------------------------------
(* Bounds of the model *)

\* clock resolution: ticks per second
TicksPerSec == 2

\* the clock's value at start-up (stands for the epoch seconds of time.time())
StartTime == 100

\* number of calls the API driver makes
MaxCalls == 3

\* frames at start-up during which nobody is in view
QuietFrames == 27

\* frames the camera delivers
MaxFrames == 30

\* frames of the steady scene
SoakFrames == 155

\* frames of the survey of the floor
SurveyFrames == 1

\* frames read while the wall clock is being adjusted
JitterFrames == 3

\* frames of the scene with pauses
PauseFrames == 32

\* identities the tracker hands out
PersonIds == {1, 2}

----------------------------------------------------------------------------
(* Program constants *)

\* deque(maxlen=100)
HistoryCap == 100

\* first_danger_time = None
NoTime == -1

\* cleanup_old_people(max_age=60)
DefaultMaxAge == 60

Seconds(s) == s * TicksPerSec

Min(a, b) == IF a < b THEN a ELSE b

Last(s) == s[Len(s)]

\* a speed of n px/s
Px(n) == [num |-> n, den |-> 1]

\* speed > k, for a speed num/den with den > 0
SpeedGt(speed, k) == speed.num > k * speed.den

\* (curr - prev) > k
SpeedDeltaGt(curr, prev, k) ==
    curr.num * prev.den - prev.num * curr.den > k * curr.den * prev.den

\* variant: a full deque drops the new entry instead of the oldest
DequeAppendKeepOld(q, x) ==
    IF Len(q) >= HistoryCap THEN q ELSE Append(q, x)

\* deque.append on a deque with maxlen=HistoryCap: the oldest entry is dropped
DequeAppend(q, x) ==
    IF Len(q) >= HistoryCap THEN Append(Tail(q), x) ELSE Append(q, x)

----------------------------------------------------------------------------
(* risk_engine.py *)

PersonProfile(now) ==
    [times |-> <<>>, positions |-> <<>>, zones |-> <<>>, speeds |-> <<>>,
     risk_scores |-> <<>>, first_danger_time |-> NoTime, last_update |-> now]

get_profile(profiles, person_id, now) ==
    IF person_id \in DOMAIN profiles THEN profiles[person_id]
    ELSE PersonProfile(now)

FactorZone(in_danger_zone, zone_risk) ==
    IF in_danger_zone THEN zone_risk ELSE 0

\* variant: the else branch does not reset the timer
FirstDangerTimeKept(profile, in_danger_zone, now) ==
    IF in_danger_zone /\ profile.first_danger_time = NoTime THEN now
    ELSE profile.first_danger_time

\* variant: the timer starts at the time of the identity's previous update
FirstDangerTimeStale(profile, in_danger_zone, now) ==
    IF in_danger_zone
    THEN IF profile.first_danger_time = NoTime THEN profile.last_update
         ELSE profile.first_danger_time
    ELSE NoTime

\* variant: the timer is set on every evaluation inside a zone
FirstDangerTimeRestarted(profile, in_danger_zone, now) ==
    IF in_danger_zone THEN now ELSE NoTime

\* profile.first_danger_time after the TIME IN ZONE block
FirstDangerTime(profile, in_danger_zone, now) ==
    IF in_danger_zone
    THEN IF profile.first_danger_time = NoTime THEN now
         ELSE profile.first_danger_time
    ELSE NoTime

\* variant: ">=" for ">" at the three dwell thresholds
FactorTimeAtThreshold(in_danger_zone, first_danger_time, now) ==
    IF in_danger_zone
    THEN LET time_in_zone == now - first_danger_time
         IN  IF time_in_zone >= Seconds(5) THEN 20
             ELSE IF time_in_zone >= Seconds(3) THEN 15
             ELSE IF time_in_zone >= Seconds(1) THEN 10
             ELSE 0
    ELSE 0

FactorTime(in_danger_zone, first_danger_time, now) ==
    IF in_danger_zone
    THEN LET time_in_zone == now - first_danger_time
         IN  IF time_in_zone > Seconds(5) THEN 20
             ELSE IF time_in_zone > Seconds(3) THEN 15
             ELSE IF time_in_zone > Seconds(1) THEN 10
             ELSE 0
    ELSE 0

\* variant: the top band starts above 250 px/s
FactorSpeedTopAbove250(speed) ==
    IF SpeedGt(speed, 250) THEN 20
    ELSE IF SpeedGt(speed, 100) THEN 15
    ELSE IF SpeedGt(speed, 50) THEN 10
    ELSE IF SpeedGt(speed, 20) THEN 5
    ELSE 0

FactorSpeed(speed) ==
    IF SpeedGt(speed, 200) THEN 20
    ELSE IF SpeedGt(speed, 100) THEN 15
    ELSE IF SpeedGt(speed, 50) THEN 10
    ELSE IF SpeedGt(speed, 20) THEN 5
    ELSE 0

FactorPosture(posture_risk) == Min(20, posture_risk)

\* variant: "<= 100" for "< 100" at the left edge
FactorProximityAtMargin(in_danger_zone, cx) ==
    IF in_danger_zone /\ cx <= 100 THEN 10
    ELSE IF in_danger_zone /\ cx > 1180 THEN 10
    ELSE 0

FactorProximity(in_danger_zone, cx) ==
    IF in_danger_zone /\ cx < 100 THEN 10
    ELSE IF in_danger_zone /\ cx > 1180 THEN 10
    ELSE 0

\* variant: prev_speed is the most recent stored speed, speeds[-1]
FactorAccelerationFromLast(speeds, speed) ==
    IF Len(speeds) >= 2
    THEN LET prev_speed == speeds[Len(speeds)]
         IN  IF SpeedDeltaGt(speed, prev_speed, 50) THEN 10
             ELSE IF SpeedDeltaGt(speed, prev_speed, 25) THEN 5
             ELSE 0
    ELSE 0

\* reads profile.speeds before the current speed is appended to it
FactorAcceleration(speeds, speed) ==
    IF Len(speeds) >= 2
    THEN LET prev_speed == speeds[Len(speeds) - 1]
         IN  IF SpeedDeltaGt(speed, prev_speed, 50) THEN 10
             ELSE IF SpeedDeltaGt(speed, prev_speed, 25) THEN 5
             ELSE 0
    ELSE 0

\* variant: the "Cap at 100" line left out
TotalRiskUncapped(factor_zone, factor_time, factor_speed, factor_posture, factor_proximity, factor_acceleration) ==
    factor_zone + factor_time + factor_speed + factor_posture
    + factor_proximity + factor_acceleration

TotalRisk(factor_zone, factor_time, factor_speed, factor_posture, factor_proximity, factor_acceleration) ==
    Min(100, factor_zone + factor_time + factor_speed + factor_posture
             + factor_proximity + factor_acceleration)

\* variant: recent_scores is the last two scores, [-2:]
TrendOfLastTwo(risk_scores) ==
    IF Len(risk_scores) >= 3
    THEN LET newest == risk_scores[Len(risk_scores)]
             oldest == risk_scores[Len(risk_scores) - 1]
         IN  IF newest > oldest + 10 THEN "↑ INCREASING"
             ELSE IF newest < oldest - 10 THEN "↓ DECREASING"
             ELSE "→ STABLE"
    ELSE "STABLE"

\* reads profile.risk_scores after the new score is appended to it; the
\* strings are the code's: an arrow glyph precedes the label whenever three
\* scores are stored
Trend(risk_scores) ==
    IF Len(risk_scores) >= 3
    THEN LET newest == risk_scores[Len(risk_scores)]
             oldest == risk_scores[Len(risk_scores) - 2]
         IN  IF newest > oldest + 10 THEN "↑ INCREASING"
             ELSE IF newest < oldest - 10 THEN "↓ DECREASING"
             ELSE "→ STABLE"
    ELSE "STABLE"

\* variant: "<= 60" for "< 60" in the elif
StatusWarningAt60(total_risk) ==
    IF total_risk < 30 THEN "SAFE"
    ELSE IF total_risk <= 60 THEN "WARNING"
    ELSE "CRITICAL"

Status(total_risk) ==
    IF total_risk < 30 THEN "SAFE"
    ELSE IF total_risk < 60 THEN "WARNING"
    ELSE "CRITICAL"

Color(total_risk) ==
    IF total_risk < 30 THEN <<0, 255, 0>>
    ELSE IF total_risk < 60 THEN <<0, 255, 255>>
    ELSE <<0, 0, 255>>

\* one "if factor > 0: factors[name] = factor" statement
AddFactor(factors, name, value) ==
    IF value > 0 THEN Append(factors, <<name, value>>) ELSE factors

\* variant: the Posture entry is inserted before the Speed entry
BuildFactorsPostureFirst(factor_zone, factor_time, factor_speed, factor_posture, factor_proximity, factor_acceleration) ==
    AddFactor(AddFactor(AddFactor(AddFactor(AddFactor(AddFactor(<<>>,
        "Zone", factor_zone), "Time", factor_time), "Posture", factor_posture),
        "Speed", factor_speed), "Proximity", factor_proximity),
        "Accel", factor_acceleration)

\* the factors dict, as the sequence of its items in insertion order
BuildFactors(factor_zone, factor_time, factor_speed, factor_posture, factor_proximity, factor_acceleration) ==
    AddFactor(AddFactor(AddFactor(AddFactor(AddFactor(AddFactor(<<>>,
        "Zone", factor_zone), "Time", factor_time), "Speed", factor_speed),
        "Posture", factor_posture), "Proximity", factor_proximity),
        "Accel", factor_acceleration)

\* calculate_risk: the profile it leaves and the dict it returns
CalculateRisk(profiles, person_id, cx, cy, in_danger_zone, zone_name, zone_risk, speed, posture, posture_risk, now) ==
    LET profile == get_profile(profiles, person_id, now)
        factor_zone == FactorZone(in_danger_zone, zone_risk)
        first_danger_time == FirstDangerTime(profile, in_danger_zone, now)
        factor_time == FactorTime(in_danger_zone, first_danger_time, now)
        factor_speed == FactorSpeed(speed)
        factor_posture == FactorPosture(posture_risk)
        factor_proximity == FactorProximity(in_danger_zone, cx)
        factor_acceleration == FactorAcceleration(profile.speeds, speed)
        total_risk == TotalRisk(factor_zone, factor_time, factor_speed,
                                factor_posture, factor_proximity,
                                factor_acceleration)
        risk_scores == DequeAppend(profile.risk_scores, total_risk)
    IN  [profile |->
            [times |-> DequeAppend(profile.times, now),
             positions |-> DequeAppend(profile.positions, <<cx, cy>>),
             zones |-> DequeAppend(profile.zones, zone_name),
             speeds |-> DequeAppend(profile.speeds, speed),
             risk_scores |-> risk_scores,
             first_danger_time |-> first_danger_time,
             last_update |-> now],
         info |->
            [person_id |-> person_id,
             score |-> total_risk,
             factors |-> BuildFactors(factor_zone, factor_time, factor_speed,
                                      factor_posture, factor_proximity,
                                      factor_acceleration),
             trend |-> Trend(risk_scores),
             status |-> Status(total_risk),
             color |-> Color(total_risk),
             zone |-> zone_name],
         \* the six local variables factor_*, for the history variable
         contrib |->
            [zone |-> factor_zone, time |-> factor_time, speed |-> factor_speed,
             posture |-> factor_posture, proximity |-> factor_proximity,
             accel |-> factor_acceleration]]

\* variant: ">= max_age" for "> max_age"
ToDeleteAtAge(profiles, max_age, now) ==
    {id \in DOMAIN profiles : now - profiles[id].last_update >= Seconds(max_age)}

\* the ids cleanup_old_people collects in to_delete
ToDelete(profiles, max_age, now) ==
    {id \in DOMAIN profiles : now - profiles[id].last_update > Seconds(max_age)}

\* person_profiles after the del loop
CleanupOldPeople(profiles, max_age, now) ==
    [id \in DOMAIN profiles \ ToDelete(profiles, max_age, now) |-> profiles[id]]

\* the entry the history variable gets for one evaluation
Observation(in_danger_zone, zone_name, cx, cy, speed, r, now) ==
    [in_zone |-> in_danger_zone, zone |-> zone_name, position |-> <<cx, cy>>,
     speed |-> speed, score |-> r.info.score, contrib |-> r.contrib,
     time |-> now]

NoInfo ==
    [person_id |-> 0, score |-> 0, factors |-> <<>>, trend |-> "STABLE",
     status |-> "SAFE", color |-> <<0, 255, 0>>, zone |-> "SAFE"]

----------------------------------------------------------------------------
(* zone_utils.py *)

\* DANGER_ZONES, in declaration order (the order dict.items() iterates in)
DANGER_ZONES ==
    << [zone_name |-> "HEAVY_MACHINERY",
        coords |-> << <<300, 200>>, <<900, 200>>, <<900, 600>>, <<300, 600>> >>,
        risk |-> 40],
       [zone_name |-> "ELECTRICAL",
        coords |-> << <<500, 150>>, <<700, 150>>, <<700, 400>>, <<500, 400>> >>,
        risk |-> 35],
       [zone_name |-> "CHEMICAL",
        coords |-> << <<100, 100>>, <<250, 100>>, <<250, 300>>, <<100, 300>> >>,
        risk |-> 30] >>

\* the vertex after the i-th one, the contour being closed
NextVertex(coords, i) == coords[(i % Len(coords)) + 1]

\* point p lies on the segment from a to b
OnSegment(p, a, b) ==
    /\ (b[1] - a[1]) * (p[2] - a[2]) = (b[2] - a[2]) * (p[1] - a[1])
    /\ Min(a[1], b[1]) <= p[1] /\ p[1] <= (IF a[1] > b[1] THEN a[1] ELSE b[1])
    /\ Min(a[2], b[2]) <= p[2] /\ p[2] <= (IF a[2] > b[2] THEN a[2] ELSE b[2])

\* the horizontal ray from p towards +x crosses the edge from a to b
RayCrosses(p, a, b) ==
    /\ (a[2] > p[2]) # (b[2] > p[2])
    /\ LET t == (p[1] - a[1]) * (b[2] - a[2]) - (b[1] - a[1]) * (p[2] - a[2])
       IN  IF b[2] > a[2] THEN t < 0 ELSE t > 0

\* cv2.pointPolygonTest(coords, point, False): 1 inside, 0 on an edge, -1 outside
PointPolygonTest(coords, point) ==
    IF \E i \in 1..Len(coords) : OnSegment(point, coords[i], NextVertex(coords, i))
    THEN 0
    ELSE IF Cardinality({i \in 1..Len(coords) :
                RayCrosses(point, coords[i], NextVertex(coords, i))}) % 2 = 1
         THEN 1
         ELSE -1

\* the indexes of the zones that contain the point
MatchingZones(cx, cy) ==
    {i \in 1..Len(danger_zones) :
        PointPolygonTest(danger_zones[i].coords, <<cx, cy>>) >= 0}

\* variant: the loop does not return at the first match, the last one wins
LastMatchingZone(cx, cy) ==
    LET hits == MatchingZones(cx, cy)
    IN  IF hits # {}
        THEN LET i == CHOOSE j \in hits : \A k \in hits : j >= k
             IN  [in_danger |-> TRUE, zone_name |-> danger_zones[i].zone_name,
                  zone_risk |-> danger_zones[i].risk]
        ELSE [in_danger |-> FALSE, zone_name |-> "SAFE", zone_risk |-> 0]

\* is_person_in_danger_zone: the first zone of the iteration that matches
is_person_in_danger_zone(cx, cy) ==
    LET hits == MatchingZones(cx, cy)
    IN  IF hits # {}
        THEN LET i == CHOOSE j \in hits : \A k \in hits : j <= k
             IN  [in_danger |-> TRUE, zone_name |-> danger_zones[i].zone_name,
                  zone_risk |-> danger_zones[i].risk]
        ELSE [in_danger |-> FALSE, zone_name |-> "SAFE", zone_risk |-> 0]

----------------------------------------------------------------------------
(* tracker_utils.py *)

\* the largest r with r * r <= n, given lo * lo <= n < hi * hi
RECURSIVE ISqrtBetween(_, _, _)
ISqrtBetween(n, lo, hi) ==
    IF hi - lo <= 1 THEN lo
    ELSE LET mid == (lo + hi) \div 2
         IN  IF mid * mid <= n THEN ISqrtBetween(n, mid, hi)
             ELSE ISqrtBetween(n, lo, mid)

\* np.sqrt, rounded down to a whole pixel: exact wherever a speed is compared,
\* the tracked centres of those scenes lying on one line
ISqrt(n) == ISqrtBetween(n, 0, Min(n, 46340) + 1)

get_person_center(x1, y1, x2, y2) == <<(x1 + x2) \div 2, (y1 + y2) \div 2>>

NewHist == [positions |-> <<>>, times |-> <<>>, speed |-> Px(0)]

\* "Keep only last 10 positions"
KeepLast10(s) == IF Len(s) > 10 THEN Tail(s) ELSE s

\* variant: "time_diff != 0" for "time_diff > 0"
CalculateSpeedNonZeroDiff(history, person_id, cx, cy, now) ==
    LET hist == IF person_id \in DOMAIN history THEN history[person_id] ELSE NewHist
        positions == KeepLast10(Append(hist.positions, <<cx, cy>>))
        times == KeepLast10(Append(hist.times, now))
        n == Len(positions)
        speed ==
            IF n >= 2
            THEN LET prev == positions[n - 1]
                     curr == positions[n]
                     distance == ISqrt((curr[1] - prev[1]) * (curr[1] - prev[1])
                                     + (curr[2] - prev[2]) * (curr[2] - prev[2]))
                     time_diff == times[n] - times[n - 1]
                 IN  IF time_diff # 0
                     THEN [num |-> distance * TicksPerSec, den |-> time_diff]
                     ELSE Px(0)
            ELSE Px(0)
    IN  [positions |-> positions, times |-> times, speed |-> speed]

\* calculate_speed: the hist it leaves for the identity (its field speed is
\* the value returned)
CalculateSpeed(history, person_id, cx, cy, now) ==
    LET hist == IF person_id \in DOMAIN history THEN history[person_id] ELSE NewHist
        positions == KeepLast10(Append(hist.positions, <<cx, cy>>))
        times == KeepLast10(Append(hist.times, now))
        n == Len(positions)
        speed ==
            IF n >= 2
            THEN LET prev == positions[n - 1]
                     curr == positions[n]
                     distance == ISqrt((curr[1] - prev[1]) * (curr[1] - prev[1])
                                     + (curr[2] - prev[2]) * (curr[2] - prev[2]))
                     time_diff == times[n] - times[n - 1]
                 IN  IF time_diff > 0
                     THEN [num |-> distance * TicksPerSec, den |-> time_diff]
                     ELSE Px(0)
            ELSE Px(0)
    IN  [positions |-> positions, times |-> times, speed |-> speed]

----------------------------------------------------------------------------
(* State after start-up: main.py lines 48-52, the module-level dicts empty *)

\* the state of every module but the zone table
StartUp ==
    /\ clock = StartTime
    /\ person_profiles = <<>>
    /\ position_history = <<>>
    /\ risk_info = NoInfo
    /\ deleted = 0
    /\ obs_log = [id \in PersonIds |-> <<>>]
    /\ frame_count = 0
    /\ total_alerts = 0
    /\ last_alert_time = 0
    /\ current_time = StartTime
    /\ tracks = <<>>
    /\ pose_risks = <<>>
    /\ track_idx = 1
    /\ critical_people = <<>>
    /\ pc = "read"
    /\ calls = 0

\* start-up with the zone table as shipped
Init == StartUp /\ danger_zones = DANGER_ZONES

\* person_profiles[person_id] = profile, the other entries kept
Store(map, key, value) ==
    [k \in DOMAIN map \cup {key} |-> IF k = key THEN value ELSE map[k]]

----------------------------------------------------------------------------
(* The engine driven through its two entry points, with arguments over the *)
(* ranges the docstring of calculate_risk documents                        *)

EngineZones ==
    { [in_danger |-> FALSE, zone_name |-> "SAFE", zone_risk |-> 0, cx |-> 50],
      [in_danger |-> TRUE, zone_name |-> "HEAVY_MACHINERY", zone_risk |-> 40,
       cx |-> 600],
      [in_danger |-> TRUE, zone_name |-> "LOADING_DOCK", zone_risk |-> 50,
       cx |-> 50] }

EngineSpeeds == {Px(0), Px(250)}

EnginePostures ==
    { [posture |-> "STANDING", risk |-> 0], [posture |-> "LYING", risk |-> 50] }

EngineGaps == {Seconds(1), Seconds(5)}

\* the arguments of one call: identity 1 takes every combination, identity 2
\* is a bystander that stands still, in or out of a zone
EngineArgs ==
    [person_id : {1}, z : EngineZones, speed : EngineSpeeds, p : EnginePostures,
     gap : EngineGaps]
    \cup
    [person_id : {2},
     z : {z \in EngineZones : z.zone_name \in {"SAFE", "HEAVY_MACHINERY"}},
     speed : {Px(0)}, p : {[posture |-> "STANDING", risk |-> 0]},
     gap : {Seconds(2)}]

IdleGaps == {Seconds(59), Seconds(60), Seconds(61)}

\* one call calculate_risk(person_id, cx, cy, ...), gap ticks after the last call
CallCalculateRisk(person_id, z, speed, p, gap) ==
    /\ calls < MaxCalls
    /\ calls' = calls + 1
    /\ clock' = clock + gap
    /\ \E r \in {CalculateRisk(person_profiles, person_id, z.cx, 250, z.in_danger,
                                z.zone_name, z.zone_risk, speed, p.posture,
                                p.risk, clock + gap)} :
           /\ person_profiles' = Store(person_profiles, person_id, r.profile)
           /\ risk_info' = r.info
           /\ obs_log' = [obs_log EXCEPT ![person_id] = Append(@,
                            Observation(z.in_danger, z.zone_name, z.cx, 250, speed,
                                        r, clock + gap))]
    /\ UNCHANGED <<position_history, deleted>>
    /\ UNCHANGED loop_vars
    /\ UNCHANGED danger_zones

\* one call cleanup_old_people(), gap ticks after the last call
CallCleanup(gap) ==
    /\ calls < MaxCalls
    /\ calls' = calls + 1
    /\ clock' = clock + gap
    /\ person_profiles' = CleanupOldPeople(person_profiles, DefaultMaxAge, clock')
    /\ deleted' = Cardinality(ToDelete(person_profiles, DefaultMaxAge, clock'))
    /\ UNCHANGED <<position_history, risk_info, obs_log>>
    /\ UNCHANGED loop_vars
    /\ UNCHANGED danger_zones

EngineCall ==
    \E a \in EngineArgs : CallCalculateRisk(a.person_id, a.z, a.speed, a.p, a.gap)

EngineCleanup == \E gap \in IdleGaps : CallCleanup(gap)

NextEngine == EngineCall \/ EngineCleanup

SpecEngine == Init /\ [][NextEngine]_vars

----------------------------------------------------------------------------
(* The engine called for one identity that stays outside every zone,       *)
(* standing, at speeds on both sides of the acceleration thresholds        *)

KinematicSpeeds == {Px(0), Px(25), Px(50), Px(80)}

KinematicArgs ==
    [person_id : {1}, z : {z \in EngineZones : ~z.in_danger},
     speed : KinematicSpeeds, p : {[posture |-> "STANDING", risk |-> 0]},
     gap : EngineGaps]

KinematicCall ==
    \E a \in KinematicArgs : CallCalculateRisk(a.person_id, a.z, a.speed, a.p, a.gap)

NextKinematics == KinematicCall

SpecKinematics == Init /\ [][NextKinematics]_vars

----------------------------------------------------------------------------
(* main.py: one pass of the while loop per frame *)

\* the bounding box the tracker reports for an identity centred at p
Box(id, p) == <<id, p[1] - 40, p[2] - 100, p[1] + 40, p[2] + 100>>

P_OUT == <<50, 250>>
P_CHEMICAL == <<150, 250>>
P_HEAVY == <<600, 250>>

\* what track_people can return for a frame: nobody, identity 1 alone, or
\* identity 1 followed by identity 2 walking with it
LiveTracks ==
    {<<>>}
    \cup {<<Box(1, p)>> : p \in {P_OUT, P_CHEMICAL, P_HEAVY}}
    \cup {<<Box(1, p), Box(2, p)>> : p \in {P_CHEMICAL, P_HEAVY}}

\* what get_pose_risk can return for a frame with n tracks: no pose at all,
\* or one LYING pose per track (pose index i is track index i - 1)
LivePoses(n) ==
    {<<>>} \cup {[i \in 1..n |-> [posture |-> "LYING", risk |-> 50]]}

\* time between two reads of the camera
FrameGaps == {1, TicksPerSec, TicksPerSec + 1}

\* STEP 1-5 up to the for loop: the frame is read, the clock sampled, the
\* tracker and the pose estimator run, critical_people emptied
ReadFrame(tr, poses, gap) ==
    /\ pc = "read"
    /\ frame_count' = frame_count + 1
    /\ clock' = clock + gap
    /\ current_time' = clock'
    /\ tracks' = tr
    /\ pose_risks' = poses
    /\ critical_people' = <<>>
    /\ track_idx' = 1
    /\ pc' = "analyze"
    /\ UNCHANGED <<person_profiles, position_history, risk_info, deleted, obs_log,
                   total_alerts, last_alert_time, calls,
                   danger_zones>>

\* "if not ret: break"
CameraFails ==
    /\ pc = "read"
    /\ pc' = "done"
    /\ UNCHANGED <<clock, person_profiles, position_history, risk_info, deleted,
                   obs_log, frame_count, total_alerts, last_alert_time,
                   current_time, tracks, pose_risks, track_idx, critical_people,
                   calls, danger_zones>>

\* variant: ">= 70" for "> 70"
AppendCriticalFrom70(critical, track_id, risk_score) ==
    IF risk_score >= 70 THEN Append(critical, <<track_id, risk_score>>)
    ELSE critical

\* "if risk_score > 70: critical_people.append((track_id, risk_score))"
AppendCritical(critical, track_id, risk_score) ==
    IF risk_score > 70 THEN Append(critical, <<track_id, risk_score>>)
    ELSE critical

\* the rest of one iteration, the centre c classified as z and the tracker's
\* history of the identity updated to hist
ScorePerson(track_id, c, z, hist, posture, posture_risk) ==
    \E r \in {CalculateRisk(person_profiles, track_id, c[1], c[2], z.in_danger,
                             z.zone_name, z.zone_risk, hist.speed, posture,
                             posture_risk, clock)} :
        /\ position_history' = Store(position_history, track_id, hist)
        /\ person_profiles' = Store(person_profiles, track_id, r.profile)
        /\ risk_info' = r.info
        /\ obs_log' = [obs_log EXCEPT ![track_id] = Append(@,
                         Observation(z.in_danger, z.zone_name, c[1], c[2],
                                     hist.speed, r, clock))]
        /\ critical_people' =
             AppendCritical(critical_people, track_id, r.info.score)

\* one iteration of "for track_idx, (track_id, x1, y1, x2, y2) in enumerate(tracks)"
AnalyzePerson ==
    /\ pc = "analyze"
    /\ track_idx <= Len(tracks)
    /\ LET t == tracks[track_idx]
           track_id == t[1]
           posture == IF track_idx <= Len(pose_risks)
                      THEN pose_risks[track_idx].posture ELSE "STANDING"
           posture_risk == IF track_idx <= Len(pose_risks)
                           THEN pose_risks[track_idx].risk ELSE 0
       IN  \E c \in {get_person_center(t[2], t[3], t[4], t[5])} :
           \E z \in {is_person_in_danger_zone(c[1], c[2])} :
           \E hist \in {CalculateSpeed(position_history, track_id, c[1], c[2],
                                       current_time)} :
               ScorePerson(track_id, c, z, hist, posture, posture_risk)
    /\ track_idx' = track_idx + 1
    /\ UNCHANGED <<clock, deleted, frame_count, total_alerts, last_alert_time,
                   current_time, tracks, pose_risks, pc, calls, danger_zones>>

\* variant: ">= 1" for "> 1"
AlertDueAtCooldown(critical, now, last) ==
    critical # <<>> /\ now - last >= Seconds(1)

\* variant: a cooldown of 2 seconds
AlertDueAfterTwo(critical, now, last) ==
    critical # <<>> /\ now - last > Seconds(2)

\* variant: the outer "if critical_people:" left out
AlertDueWithoutList(critical, now, last) == now - last > Seconds(1)

\* "if critical_people: if current_time - last_alert_time > 1:"
AlertDue(critical, now, last) == critical # <<>> /\ now - last > Seconds(1)

\* HANDLE CRITICAL ALERTS, after the for loop
HandleAlerts ==
    /\ pc = "analyze"
    /\ track_idx > Len(tracks)
    /\ IF AlertDue(critical_people, current_time, last_alert_time)
       THEN /\ total_alerts' = total_alerts + 1
            /\ last_alert_time' = current_time
       ELSE UNCHANGED <<total_alerts, last_alert_time>>
    /\ pc' = "waitkey"
    /\ UNCHANGED <<clock, person_profiles, position_history, risk_info, deleted,
                   obs_log, frame_count, current_time, tracks, pose_risks,
                   track_idx, critical_people, calls, danger_zones>>

\* "if cv2.waitKey(1) & 0xFF == ord('q'): break"
Quit ==
    /\ pc = "waitkey"
    /\ pc' = "done"
    /\ UNCHANGED <<clock, person_profiles, position_history, risk_info, deleted,
                   obs_log, frame_count, total_alerts, last_alert_time,
                   current_time, tracks, pose_risks, track_idx, critical_people,
                   calls, danger_zones>>

\* "if frame_count % 30 == 0: cleanup_old_people()", taken
Reap ==
    /\ pc = "waitkey"
    /\ frame_count % 30 = 0
    /\ person_profiles' = CleanupOldPeople(person_profiles, DefaultMaxAge, clock)
    /\ deleted' = Cardinality(ToDelete(person_profiles, DefaultMaxAge, clock))
    /\ pc' = "read"
    /\ UNCHANGED <<clock, position_history, risk_info, obs_log, frame_count,
                   total_alerts, last_alert_time, current_time, tracks,
                   pose_risks, track_idx, critical_people, calls,
                   danger_zones>>

\* "if frame_count % 30 == 0", not taken
NoReap ==
    /\ pc = "waitkey"
    /\ frame_count % 30 # 0
    /\ pc' = "read"
    /\ UNCHANGED <<clock, person_profiles, position_history, risk_info, deleted,
                   obs_log, frame_count, total_alerts, last_alert_time,
                   current_time, tracks, pose_risks, track_idx, critical_people,
                   calls, danger_zones>>

\* a live scene: nobody in view for the first QuietFrames frames, then anything
LiveFrame ==
    /\ frame_count < MaxFrames
    /\ IF frame_count < QuietFrames
       THEN ReadFrame(<<>>, <<>>, 1)
       ELSE \E tr \in LiveTracks, gap \in FrameGaps :
                \E poses \in LivePoses(Len(tr)) : ReadFrame(tr, poses, gap)

Next ==
    \/ LiveFrame
    \/ CameraFails
    \/ AnalyzePerson
    \/ HandleAlerts
    \/ Quit
    \/ Reap
    \/ NoReap

Spec == Init /\ [][Next]_vars

----------------------------------------------------------------------------
(* A steady scene: identity 1 is in view on every frame, walking the round *)
(* P_OUT -> P_CHEMICAL -> P_HEAVY and lying down on every other frame      *)

SoakNextPoint(p) ==
    IF p = P_OUT THEN P_CHEMICAL
    ELSE IF p = P_CHEMICAL THEN P_HEAVY
    ELSE P_OUT

SoakFrame ==
    /\ frame_count < SoakFrames
    /\ IF frame_count = 0
       THEN \E p \in {P_OUT, P_CHEMICAL, P_HEAVY}, poses \in LivePoses(1) :
                ReadFrame(<<Box(1, p)>>, poses, 1)
       ELSE LET t == tracks[1]
                c == get_person_center(t[2], t[3], t[4], t[5])
            IN  ReadFrame(<<Box(1, SoakNextPoint(c))>>,
                          IF pose_risks = <<>>
                          THEN <<[posture |-> "LYING", risk |-> 50]>> ELSE <<>>,
                          1)

NextSoak ==
    \/ SoakFrame
    \/ CameraFails
    \/ AnalyzePerson
    \/ HandleAlerts
    \/ Quit
    \/ Reap
    \/ NoReap

SpecSoak == Init /\ [][NextSoak]_vars

----------------------------------------------------------------------------
(* A survey of the floor: identity 1 is in view on every frame, anywhere   *)
(* on a grid that holds every corner of every zone, points on their edges, *)
(* inside each of them, inside two at once and outside all                 *)

SurveyXs == {50, 100, 175, 250, 275, 300, 500, 600, 700, 900, 1000, 1200}

SurveyYs == {50, 100, 150, 175, 200, 300, 350, 400, 500, 600, 650}

SurveyFrame ==
    /\ frame_count < SurveyFrames
    /\ \E x \in SurveyXs, y \in SurveyYs : ReadFrame(<<Box(1, <<x, y>>)>>, <<>>, 1)

NextSurvey ==
    \/ SurveyFrame
    \/ AnalyzePerson
    \/ HandleAlerts
    \/ NoReap

SpecSurvey == Init /\ [][NextSurvey]_vars

----------------------------------------------------------------------------
(* A scene read while the wall clock is adjusted: time.time() may return   *)
(* the same value on two frames, or an earlier one                         *)

JitterGaps == {-1, 0, 1, TicksPerSec}

JitterFrame ==
    /\ frame_count < JitterFrames
    /\ \E p \in {P_OUT, P_CHEMICAL, P_HEAVY}, gap \in JitterGaps :
           ReadFrame(<<Box(1, p)>>, <<>>, gap)

NextJitter ==
    \/ JitterFrame
    \/ AnalyzePerson
    \/ HandleAlerts
    \/ NoReap

SpecJitter == Init /\ [][NextJitter]_vars

----------------------------------------------------------------------------
(* A scene with pauses: after the quiet start identity 1 comes and goes,   *)
(* and the loop may stall for a minute between two frames (cap.read()      *)
(* blocks while the camera reconnects)                                     *)

PauseScenes ==
    { [tracks |-> <<>>, poses |-> <<>>],
      [tracks |-> <<Box(1, P_CHEMICAL)>>, poses |-> <<>>],
      [tracks |-> <<Box(1, P_HEAVY)>>, poses |-> <<>>],
      [tracks |-> <<Box(1, P_HEAVY)>>,
       poses |-> <<[posture |-> "LYING", risk |-> 50]>>] }

PauseGaps == {1, Seconds(61)}

PausedFrame ==
    /\ frame_count < PauseFrames
    /\ IF frame_count < QuietFrames
       THEN ReadFrame(<<>>, <<>>, 1)
       ELSE \E sc \in PauseScenes, gap \in PauseGaps :
                ReadFrame(sc.tracks, sc.poses, gap)

NextPauses ==
    \/ PausedFrame
    \/ AnalyzePerson
    \/ HandleAlerts
    \/ Reap
    \/ NoReap

SpecPauses == Init /\ [][NextPauses]_vars

----------------------------------------------------------------------------
(* A zone table edited by the installer *)

\* the zone table after an edit that adds a zone drawn with two corner points
EDITED_ZONES ==
    Append(DANGER_ZONES,
           [zone_name |-> "WALKWAY",
            coords |-> << <<950, 100>>, <<1100, 100>> >>,
            risk |-> 20])

\* start-up with the zone table as shipped or as edited: the module-level
\* literal is the only configuration there is, and nothing reads it before
\* the main loop does
InitEdited == StartUp /\ danger_zones \in {DANGER_ZONES, EDITED_ZONES}

SpecEdited == InitEdited /\ [][NextSurvey]_vars

----------------------------------------------------------------------------
(* Properties *)

RECURSIVE SumValues(_)
SumValues(factors) ==
    IF factors = <<>> THEN 0 ELSE factors[1][2] + SumValues(Tail(factors))

\* the value the factors mapping gives a name, 0 when the name is not listed
FactorValue(factors, name) ==
    IF \E i \in 1..Len(factors) : factors[i][1] = name
    THEN LET i == CHOOSE j \in 1..Len(factors) : factors[j][1] = name
         IN  factors[i][2]
    ELSE 0

\* the evaluation that returned risk_info
Evaluated == risk_info.person_id # 0

LatestObs == Last(obs_log[risk_info.person_id])

\* the six contributions of an evaluation, in the fixed order
Contributions(c) ==
    << <<"Zone", c.zone>>, <<"Time", c.time>>, <<"Speed", c.speed>>,
       <<"Posture", c.posture>>, <<"Proximity", c.proximity>>,
       <<"Accel", c.accel>> >>

NonZero(item) == item[2] # 0

\* C1: every score calculate_risk returns is an integer from 0 to 100, for
\* any arguments in the documented ranges and any stored history
C1_ScoreInRange == risk_info.score \in 0..100

\* C1 witness: an evaluation whose factors add up to more than 100
C1_Clamped ==
    /\ Evaluated
    /\ SumValues(risk_info.factors) > 100
    /\ risk_info.score = 100

\* C2 as stated: the score is the sum of the listed factor values, and the
\* listing holds exactly the nonzero contributions in the fixed order
C2_ScoreIsFactorSum ==
    Evaluated =>
        /\ risk_info.score = SumValues(risk_info.factors)
        /\ risk_info.factors = SelectSeq(Contributions(LatestObs.contrib), NonZero)

\* C2 amended: the score is the sum of the listed factor values capped at 100,
\* and the listing holds exactly the nonzero contributions in the fixed order
C2_ScoreIsCappedFactorSum ==
    Evaluated =>
        /\ risk_info.score = Min(100, SumValues(risk_info.factors))
        /\ risk_info.factors = SelectSeq(Contributions(LatestObs.contrib), NonZero)

\* C2 witness: an evaluation whose listed factors add up to more than 100,
\* one of the six contributions being zero and left out of the listing
C2_CappedListing ==
    /\ Evaluated
    /\ Len(risk_info.factors) = 5
    /\ SumValues(risk_info.factors) = 110
    /\ risk_info.score = 100

\* C3 as stated: in every assessment zone <= 40, dwell-time <= 20, speed <= 20,
\* posture <= 20, proximity <= 10, acceleration <= 10
C3_FactorCaps ==
    /\ FactorValue(risk_info.factors, "Zone") <= 40
    /\ FactorValue(risk_info.factors, "Time") <= 20
    /\ FactorValue(risk_info.factors, "Speed") <= 20
    /\ FactorValue(risk_info.factors, "Posture") <= 20
    /\ FactorValue(risk_info.factors, "Proximity") <= 10
    /\ FactorValue(risk_info.factors, "Accel") <= 10

\* the step HANDLE CRITICAL ALERTS of a frame
ThrottleStep == pc = "analyze" /\ pc' = "waitkey"

\* C4: the alert counter and the last-alert timestamp change only together
\* and only in the throttle step after the frame's identities are scored; the
\* counter then grows by exactly 1 and the frame's timestamp is more than the
\* 1 s cooldown after the previous alert's
C4_ThrottleSafety ==
    [][(total_alerts' # total_alerts \/ last_alert_time' # last_alert_time) =>
          /\ ThrottleStep
          /\ track_idx > Len(tracks)
          /\ total_alerts' = total_alerts + 1
          /\ last_alert_time' = current_time
          /\ current_time - last_alert_time > Seconds(1)]_vars

\* C4 witness: a second alert, emitted on a frame with two critical identities
C4_TwoAlerts ==
    /\ pc = "waitkey"
    /\ total_alerts = 2
    /\ last_alert_time = current_time
    /\ Len(critical_people) = 2

\* C5 as stated: a frame with a non-empty critical list whose timestamp is at
\* least the cooldown after the last alert (or before any alert) emits one alert
C5_AlertWhenElapsed ==
    [][(/\ ThrottleStep
        /\ critical_people # <<>>
        /\ (total_alerts = 0 \/ current_time - last_alert_time >= Seconds(1))) =>
          /\ total_alerts' = total_alerts + 1
          /\ last_alert_time' = current_time]_vars

\* C5 amended: a frame with a non-empty critical list whose timestamp is more
\* than the cooldown after the last alert (or before any alert) emits exactly
\* one alert: the counter grows by 1 and the timestamp becomes the frame's
C5_AlertWhenExceeded ==
    [][(/\ ThrottleStep
        /\ critical_people # <<>>
        /\ (total_alerts = 0 \/ current_time - last_alert_time > Seconds(1))) =>
          /\ total_alerts' = total_alerts + 1
          /\ last_alert_time' = current_time]_vars

\* C5 witness: an alert emitted on a frame later than the first alert's
C5_SecondAlert ==
    /\ pc = "waitkey"
    /\ total_alerts >= 2
    /\ last_alert_time = current_time
    /\ critical_people # <<>>

\* the score the latest evaluation of the i-th track of the frame gave
ScoredPair(i) == <<tracks[i][1], Last(obs_log[tracks[i][1]]).score>>

Over70(pair) == pair[2] > 70

\* C6: the critical list is exactly the (identity, score) pairs, in scoring
\* order, of the identities scored so far in the frame whose score is > 70,
\* whether or not the throttle emitted an alert on the frame
C6_CriticalList ==
    critical_people =
        SelectSeq([i \in 1..(track_idx - 1) |-> ScoredPair(i)], Over70)

\* C6 witness: a frame past the throttle that emitted no alert, with one of
\* its two identities on the list and the other not
C6_ListWithoutAlert ==
    /\ pc = "waitkey"
    /\ Len(tracks) = 2
    /\ Len(critical_people) = 1
    /\ total_alerts >= 1
    /\ last_alert_time # current_time

\* C7: for every stored profile, dwell-start is set iff the latest evaluation
\* of the identity had it inside a zone
C7_DwellStartIffInZone ==
    \A id \in DOMAIN person_profiles :
        (person_profiles[id].first_danger_time # NoTime)
            <=> Last(obs_log[id]).in_zone

\* C7 witness: an identity evaluated in a zone and then outside, its
\* dwell-start cleared
C7_LeftZone ==
    \E id \in DOMAIN person_profiles :
        LET log == obs_log[id]
        IN  /\ Len(log) >= 2
            /\ log[Len(log) - 1].in_zone
            /\ ~log[Len(log)].in_zone
            /\ person_profiles[id].first_danger_time = NoTime

\* the latest three evaluations of id were inside, outside, inside a zone
ReEntered(id) ==
    LET log == obs_log[id]
        n == Len(log)
    IN  /\ n >= 3
        /\ log[n].in_zone
        /\ ~log[n - 1].in_zone
        /\ \E k \in 1..(n - 2) : log[k].in_zone

\* C8: on the evaluation that re-enters a zone, after one inside and one
\* outside, the dwell time restarts: the dwell-time factor is 0 and, while the
\* profile is stored, dwell-start is the time of that evaluation
C8_DwellRestarts ==
    \A id \in PersonIds :
        ReEntered(id) =>
            /\ Last(obs_log[id]).contrib.time = 0
            /\ id \in DOMAIN person_profiles =>
                 person_profiles[id].first_danger_time = Last(obs_log[id]).time

\* C8 witness: a re-entry more than 3 s after the first entry
C8_ReEntry ==
    \E id \in DOMAIN person_profiles :
        /\ ReEntered(id)
        /\ risk_info.person_id = id
        /\ Last(obs_log[id]).time - obs_log[id][1].time > Seconds(3)
        /\ obs_log[id][1].in_zone

\* the last n entries of s, all of s when it has fewer
LastN(s, n) == IF Len(s) > n THEN SubSeq(s, Len(s) - n + 1, Len(s)) ELSE s

LogTimes(id) == [i \in 1..Len(obs_log[id]) |-> obs_log[id][i].time]
LogPositions(id) == [i \in 1..Len(obs_log[id]) |-> obs_log[id][i].position]
LogZones(id) == [i \in 1..Len(obs_log[id]) |-> obs_log[id][i].zone]
LogSpeeds(id) == [i \in 1..Len(obs_log[id]) |-> obs_log[id][i].speed]
LogScores(id) == [i \in 1..Len(obs_log[id]) |-> obs_log[id][i].score]

\* the five deques of the profile hold the latest HistoryCap observations
ProfileHoldsLatest(id) ==
    /\ person_profiles[id].times = LastN(LogTimes(id), HistoryCap)
    /\ person_profiles[id].positions = LastN(LogPositions(id), HistoryCap)
    /\ person_profiles[id].zones = LastN(LogZones(id), HistoryCap)
    /\ person_profiles[id].speeds = LastN(LogSpeeds(id), HistoryCap)
    /\ person_profiles[id].risk_scores = LastN(LogScores(id), HistoryCap)

Observed150(id) == id \in DOMAIN person_profiles /\ Len(obs_log[id]) >= 150

\* C9 as stated: no history exceeds 100 entries and, after 150 observations,
\* every history of the identity, the position/timestamp history of the speed
\* estimator included, holds exactly the 100 most recent entries
C9_AllHistoriesHold100 ==
    \A id \in PersonIds :
        Observed150(id) =>
            /\ ProfileHoldsLatest(id)
            /\ Len(person_profiles[id].times) = 100
            /\ position_history[id].positions = LastN(LogPositions(id), 100)
            /\ position_history[id].times = LastN(LogTimes(id), 100)

\* C9 amended: no history exceeds 100 entries; the five histories of the
\* profile hold the latest observations, exactly the 100 most recent after 150
\* observations, most recent last; the position/timestamp history of the speed
\* estimator holds the 10 most recent
C9_ProfileHistoriesHold100 ==
    \A id \in DOMAIN person_profiles :
        /\ Len(person_profiles[id].times) <= 100
        /\ Len(person_profiles[id].positions) <= 100
        /\ Len(person_profiles[id].zones) <= 100
        /\ Len(person_profiles[id].speeds) <= 100
        /\ Len(person_profiles[id].risk_scores) <= 100
        /\ Len(position_history[id].positions) <= 100
        /\ Len(position_history[id].times) <= 100
        /\ ProfileHoldsLatest(id)
        /\ Len(obs_log[id]) >= 150 =>
             /\ Len(person_profiles[id].times) = 100
             /\ Len(person_profiles[id].positions) = 100
             /\ Len(person_profiles[id].zones) = 100
             /\ Len(person_profiles[id].speeds) = 100
             /\ Len(person_profiles[id].risk_scores) = 100
             /\ position_history[id].positions = LastN(LogPositions(id), 10)
             /\ position_history[id].times = LastN(LogTimes(id), 10)

\* C9 witness: an identity observed 150 times
C9_Observed150 ==
    /\ Observed150(1)
    /\ Len(obs_log[1]) = 150
    /\ person_profiles[1].times[1] = obs_log[1][51].time

\* a step of cleanup_old_people
CleanupStep == calls' = calls + 1 /\ obs_log' = obs_log

\* C10: cleanup_old_people removes exactly the profiles idle for more than
\* max_age, leaves the others as they were and returns the number removed
C10_ReaperExact ==
    [][CleanupStep =>
          /\ DOMAIN person_profiles' =
               {id \in DOMAIN person_profiles :
                  ~(clock' - person_profiles[id].last_update
                      > Seconds(DefaultMaxAge))}
          /\ \A id \in DOMAIN person_profiles' :
               person_profiles'[id] = person_profiles[id]
          /\ deleted' = Cardinality(DOMAIN person_profiles)
                        - Cardinality(DOMAIN person_profiles')]_vars

\* C10 witness: a cleanup that removed a profile idle for 61 s and kept one
\* idle for 59 s
C10_OneEvictedOneKept ==
    /\ deleted = 1
    /\ \E id \in PersonIds \ DOMAIN person_profiles :
         /\ obs_log[id] # <<>>
         /\ clock - Last(obs_log[id]).time = Seconds(61)
    /\ \E id \in DOMAIN person_profiles :
         clock - person_profiles[id].last_update = Seconds(59)

----------------------------------------------------------------------------
(* Status, speed, trend and dwell-time of an evaluation *)

\* the profile of the identity risk_info is about is still stored: it is then
\* as the evaluation left it, cleanup_old_people changing no stored profile
LatestProfileStored == Evaluated /\ risk_info.person_id \in DOMAIN person_profiles

LatestProfile == person_profiles[risk_info.person_id]

\* C11: the status is a function of the score alone: SAFE iff score < 30,
\* WARNING iff 30 <= score < 60, CRITICAL iff score >= 60
C11_StatusFromScore ==
    Evaluated =>
        /\ risk_info.status = "SAFE" <=> risk_info.score < 30
        /\ risk_info.status = "WARNING"
             <=> (risk_info.score >= 30 /\ risk_info.score < 60)
        /\ risk_info.status = "CRITICAL" <=> risk_info.score >= 60

\* C11 witness: a score of exactly 30, WARNING, after one of exactly 60
C11_WarningAt30 ==
    /\ Evaluated
    /\ risk_info.score = 30
    /\ risk_info.status = "WARNING"
    /\ \E i \in 1..Len(obs_log[risk_info.person_id]) :
         obs_log[risk_info.person_id][i].score = 60

\* the latest evaluation was of an identity outside every zone, moving at
\* 250 px/s, with posture risk 0
Outside250Standing ==
    /\ Evaluated
    /\ ~LatestObs.in_zone
    /\ LatestObs.speed = Px(250)
    /\ LatestObs.contrib.posture = 0

OnlySpeed20 ==
    /\ risk_info.factors = << <<"Speed", 20>> >>
    /\ risk_info.score = 20
    /\ risk_info.status = "SAFE"

\* profile.speeds as the latest evaluation found it, before its append
StoredSpeedsBefore ==
    SubSeq(LatestProfile.speeds, 1, Len(LatestProfile.speeds) - 1)

\* C12 as stated: outside every zone at 250 px/s with posture risk 0, the
\* factors are exactly {Speed: 20}, the score 20 and the status SAFE, whatever
\* speed history is stored
C12_Speed250AnyHistory == Outside250Standing => OnlySpeed20

\* C12 amended: the same, when fewer than two speeds are stored or the
\* second-most-recent stored speed is at least 225 px/s
C12_Speed250SteadyHistory ==
    (/\ Outside250Standing
     /\ LatestProfileStored
     /\ \/ Len(StoredSpeedsBefore) < 2
        \/ ~SpeedDeltaGt(Px(250),
                         StoredSpeedsBefore[Len(StoredSpeedsBefore) - 1], 25))
        => OnlySpeed20

\* C12 witness: the third evaluation of an identity that moved at 250 px/s in
\* its first
C12_Steady250 ==
    /\ Outside250Standing
    /\ LatestProfileStored
    /\ Len(StoredSpeedsBefore) = 2
    /\ StoredSpeedsBefore[1] = Px(250)
    /\ OnlySpeed20

\* the label of a trend string, without the arrow glyph the code puts before it
TrendLabel(trend) ==
    CASE trend = "↑ INCREASING" -> "INCREASING"
      [] trend = "↓ DECREASING" -> "DECREASING"
      [] trend = "→ STABLE" -> "STABLE"
      [] OTHER -> trend

\* the trend of the three most recent of the stored scores
TrendOfRecent(risk_scores) ==
    LET n == Len(risk_scores)
    IN  IF n < 3 THEN "STABLE"
        ELSE IF risk_scores[n] > risk_scores[n - 2] + 10 THEN "INCREASING"
        ELSE IF risk_scores[n] < risk_scores[n - 2] - 10 THEN "DECREASING"
        ELSE "STABLE"

\* C13: the trend compares the newest of the three most recent stored scores,
\* the new one included, with the oldest of them: INCREASING iff newest >
\* oldest + 10, DECREASING iff newest < oldest - 10, else STABLE; STABLE with
\* fewer than three scores; [20, 25, 40] is INCREASING and [40, 38, 35] STABLE
C13_TrendOfLastThree ==
    /\ TrendLabel(risk_info.trend) \in {"INCREASING", "DECREASING", "STABLE"}
    /\ LatestProfileStored =>
         TrendLabel(risk_info.trend) = TrendOfRecent(LatestProfile.risk_scores)
    /\ TrendLabel(Trend(<<20, 25, 40>>)) = "INCREASING"
    /\ TrendLabel(Trend(<<40, 38, 35>>)) = "STABLE"

\* C13 witness: a third score more than 10 above the first and not above the
\* second
C13_Increasing ==
    /\ LatestProfileStored
    /\ Len(LatestProfile.risk_scores) = 3
    /\ LatestProfile.risk_scores[3] > LatestProfile.risk_scores[1] + 10
    /\ LatestProfile.risk_scores[3] <= LatestProfile.risk_scores[2]
    /\ risk_info.trend = "↑ INCREASING"

\* the time since dwell-start at the latest evaluation
Elapsed == LatestObs.time - LatestProfile.first_danger_time

DwellStep(elapsed) ==
    IF elapsed > Seconds(5) THEN 20
    ELSE IF elapsed > Seconds(3) THEN 15
    ELSE IF elapsed > Seconds(1) THEN 10
    ELSE 0

\* C16: the dwell-time factor is 20 when more than 5 s have elapsed since
\* dwell-start, 15 when more than 3 s, 10 when more than 1 s, else 0, and 0
\* outside every zone; standing still for 6 s in a zone of risk 40 with posture
\* risk 0 gives exactly {Zone: 40, Time: 20} and the score 60
C16_DwellStepFunction ==
    LatestProfileStored =>
        /\ LatestObs.contrib.time =
             IF LatestObs.in_zone THEN DwellStep(Elapsed) ELSE 0
        /\ (/\ LatestObs.in_zone
            /\ LatestObs.contrib.zone = 40
            /\ LatestObs.speed = Px(0)
            /\ LatestObs.contrib.posture = 0
            /\ Elapsed = Seconds(6))
              => /\ risk_info.factors = << <<"Zone", 40>>, <<"Time", 20>> >>
                 /\ risk_info.score = 60

\* C16 witness: 6 s in the zone of risk 40, standing still, after an
\* evaluation exactly 1 s after dwell-start
C16_SixSeconds ==
    /\ LatestProfileStored
    /\ LatestObs.in_zone
    /\ LatestObs.contrib.zone = 40
    /\ LatestObs.speed = Px(0)
    /\ LatestObs.contrib.posture = 0
    /\ Elapsed = Seconds(6)
    /\ risk_info.score = 60
    /\ Len(obs_log[risk_info.person_id]) = 3
    /\ obs_log[risk_info.person_id][2].contrib.time = 0
    /\ obs_log[risk_info.person_id][2].in_zone

\* the acceleration factor for a speed delta of curr - prev
AccelStep(curr, prev) ==
    IF SpeedDeltaGt(curr, prev, 50) THEN 10
    ELSE IF SpeedDeltaGt(curr, prev, 25) THEN 5
    ELSE 0

\* C17: the acceleration delta is the current speed minus the second-most-
\* recent speed stored when the call is made, the current speed being appended
\* afterwards; the factor is 10 for a delta above 50, 5 above 25, else 0, and
\* 0 whenever fewer than two speeds are stored
C17_AccelFromSecondLast ==
    LatestProfileStored =>
        LatestObs.contrib.accel =
            IF Len(StoredSpeedsBefore) >= 2
            THEN AccelStep(LatestObs.speed,
                           StoredSpeedsBefore[Len(StoredSpeedsBefore) - 1])
            ELSE 0

\* C17 witness: 50 px/s after stored speeds of 0 and 80 px/s: a delta of
\* exactly 50 from the second-most-recent speed, factor 5
C17_DeltaOfFifty ==
    /\ LatestProfileStored
    /\ StoredSpeedsBefore = <<Px(0), Px(80)>>
    /\ LatestObs.speed = Px(50)
    /\ LatestObs.contrib.accel = 5
    /\ risk_info.factors = << <<"Speed", 5>>, <<"Accel", 5>> >>

----------------------------------------------------------------------------
(* Zone classification *)

\* the smallest and the largest of a non-empty set of integers
MinOf(S) == CHOOSE m \in S : \A k \in S : m <= k

MaxOf(S) == CHOOSE m \in S : \A k \in S : m >= k

\* point lies in the rectangle spanned by coords, its boundary included; the
\* three polygons of DANGER_ZONES are such rectangles
InRectangle(coords, point) ==
    LET xs == {coords[i][1] : i \in 1..Len(coords)}
        ys == {coords[i][2] : i \in 1..Len(coords)}
    IN  /\ MinOf(xs) <= point[1] /\ point[1] <= MaxOf(xs)
        /\ MinOf(ys) <= point[2] /\ point[2] <= MaxOf(ys)

\* what the earliest-declared zone containing the point gives, (False, SAFE, 0)
\* when there is none
FirstContaining(point) ==
    LET hits == {i \in 1..Len(DANGER_ZONES) :
                    InRectangle(DANGER_ZONES[i].coords, point)}
    IN  IF hits = {}
        THEN [in_zone |-> FALSE, zone |-> "SAFE", risk |-> 0]
        ELSE [in_zone |-> TRUE, zone |-> DANGER_ZONES[MinOf(hits)].zone_name,
              risk |-> DANGER_ZONES[MinOf(hits)].risk]

\* C14: the classification of a point is the first zone in declaration order
\* whose polygon contains it, a point on the boundary counting as inside; a
\* point in two overlapping zones gets the name and the risk of the earlier
\* one, a point in no zone gets (False, "SAFE", 0)
C14_FirstZoneInOrder ==
    \A id \in PersonIds :
        obs_log[id] # <<>> =>
            LET o == Last(obs_log[id])
                e == FirstContaining(o.position)
            IN  /\ o.in_zone = e.in_zone
                /\ o.zone = e.zone
                /\ o.contrib.zone = e.risk

\* C14 witness: a point on the edge of HEAVY_MACHINERY and on the edge of
\* ELECTRICAL is classified as HEAVY_MACHINERY, risk 40
C14_SharedEdgePoint ==
    /\ obs_log[1] # <<>>
    /\ Last(obs_log[1]).position = <<500, 200>>
    /\ PointPolygonTest(DANGER_ZONES[1].coords, <<500, 200>>) = 0
    /\ PointPolygonTest(DANGER_ZONES[2].coords, <<500, 200>>) = 0
    /\ Last(obs_log[1]).zone = "HEAVY_MACHINERY"
    /\ Last(obs_log[1]).contrib.zone = 40
    /\ risk_info.zone = "HEAVY_MACHINERY"

\* C15 as stated: a zone table holding a polygon of fewer than three vertices
\* is rejected at start-up, so that no point is ever classified against it
C15_DegenerateZoneRejected ==
    (\E i \in 1..Len(danger_zones) : Len(danger_zones[i].coords) < 3)
        => \A id \in PersonIds : obs_log[id] = <<>>

----------------------------------------------------------------------------
(* Speed estimation *)

\* C18: calculate_speed returns 0, and never a negative speed or an error,
\* when fewer than two observations of the identity are recorded (the new one
\* counted) or when the time elapsed since the previous one is zero or
\* negative; in every case the new observation is appended to the history
C18_SpeedZeroOnAnomaly ==
    \A id \in DOMAIN position_history :
        LET hist == position_history[id]
            n == Len(hist.positions)
        IN  /\ hist.speed.den > 0
            /\ hist.speed.num >= 0
            /\ (n < 2 \/ hist.times[n] - hist.times[n - 1] <= 0)
                 => hist.speed = Px(0)
            /\ Len(hist.times) = n
            /\ n = Min(10, Len(obs_log[id]))
            /\ hist.positions[n] = Last(obs_log[id]).position
            /\ hist.times[n] = Last(obs_log[id]).time
            /\ hist.speed = Last(obs_log[id]).speed

\* C18 witness: three observations of a moving identity, the second at the
\* time of the first and the third before it, each with speed 0
C18_ClockStoodAndWentBack ==
    /\ 1 \in DOMAIN position_history
    /\ Len(position_history[1].positions) = 3
    /\ position_history[1].times[2] = position_history[1].times[1]
    /\ position_history[1].times[3] < position_history[1].times[2]
    /\ position_history[1].positions[2] # position_history[1].positions[1]
    /\ position_history[1].positions[3] # position_history[1].positions[2]
    /\ obs_log[1][2].speed = Px(0)
    /\ position_history[1].speed = Px(0)

----------------------------------------------------------------------------
(* Eviction and frames without anybody in view *)

\* id has been evaluated and its profile is not stored: the reaper evicted it
Evicted(id) == obs_log[id] # <<>> /\ id \notin DOMAIN person_profiles

\* id has been evaluated again after the reaper evicted it
ReObserved(id) ==
    /\ id \in DOMAIN person_profiles
    /\ Len(obs_log[id]) > Len(person_profiles[id].times)
    /\ Len(person_profiles[id].times) = 1

\* C19 as stated: eviction leaves no state of the identity behind, the
\* position and time history of the speed estimator included, and an evicted
\* identity that is observed again is treated as first seen: speed 0, a
\* history of that one observation, a dwell-start that is null or that
\* observation's time, trend STABLE
C19_EvictionForgetsAll ==
    \A id \in PersonIds :
        /\ Evicted(id) => id \notin DOMAIN position_history
        /\ ReObserved(id) =>
             /\ Last(obs_log[id]).speed.num = 0
             /\ Len(position_history[id].positions) = 1
             /\ Len(person_profiles[id].speeds) = 1
             /\ Len(person_profiles[id].risk_scores) = 1
             /\ person_profiles[id].first_danger_time
                  \in {NoTime, Last(obs_log[id]).time}
             /\ risk_info.person_id = id => risk_info.trend = "STABLE"

\* a step of, or into, a frame in which track_people returned no track
EmptyFrameStep == tracks' = <<>> /\ frame_count' >= 1

\* C20: a frame without tracked identities leaves every stored profile, the
\* alert counter and the last-alert time as they were and its critical list
\* empty; profiles are removed on such a frame by the reaper alone
C20_EmptyFrameIsInert ==
    [][EmptyFrameStep =>
          /\ critical_people' = <<>>
          /\ total_alerts' = total_alerts
          /\ last_alert_time' = last_alert_time
          /\ \A id \in DOMAIN person_profiles' :
               /\ id \in DOMAIN person_profiles
               /\ person_profiles'[id] = person_profiles[id]
          /\ DOMAIN person_profiles' # DOMAIN person_profiles
               => (pc = "waitkey" /\ frame_count % 30 = 0)]_vars

\* C20 witness: frame 30 was empty and is done, an alert was raised before
\* it, and the reaper removed the one profile at its end
C20_EmptyFrameReaped ==
    /\ frame_count = 30
    /\ tracks = <<>>
    /\ pc = "read"
    /\ total_alerts = 1
    /\ last_alert_time > 0
    /\ deleted = 1
    /\ Evicted(1)

----------------------------------------------------------------------------
(* Proximity under the shipped zone table *)

\* C21: with the zone table as shipped, the Proximity factor is 0 in every
\* assessment of the running program: no point classified inside a zone has
\* cx < 100 or cx > 1180
C21_ProximityAlwaysZero ==
    /\ FactorValue(risk_info.factors, "Proximity") = 0
    /\ \A id \in PersonIds :
         \A i \in 1..Len(obs_log[id]) :
            /\ obs_log[id][i].contrib.proximity = 0
            /\ obs_log[id][i].in_zone =>
                 /\ obs_log[id][i].position[1] >= 100
                 /\ obs_log[id][i].position[1] <= 1180

\* C21 witness: an identity on the left edge of CHEMICAL, cx = 100, the
\* in-zone point nearest a frame edge, assessed with no Proximity factor
C21_OnLeftEdgeOfChemical ==
    /\ Evaluated
    /\ LatestObs.position = <<100, 300>>
    /\ LatestObs.in_zone
    /\ LatestObs.zone = "CHEMICAL"
    /\ LatestObs.contrib.proximity = 0
    /\ risk_info.factors = << <<"Zone", 30>> >>

----------------------------------------------------------------------------
(* Dwell-start across zones *)

\* first_danger_time of id, null when no profile of id is stored
DwellStart(profiles, id) ==
    IF id \in DOMAIN profiles THEN profiles[id].first_danger_time ELSE NoTime

\* the step is an evaluation of id by calculate_risk
EvaluationOf(id) == obs_log'[id] # obs_log[id]

\* C22: dwell-start is set only by an evaluation that finds the identity in a
\* zone while dwell-start is null, to the time of that evaluation; every later
\* consecutive evaluation in a zone leaves it unchanged, whatever the zone's
\* name, and takes its dwell time from it
C22_DwellStartKeptAcrossZones ==
    [][\A id \in PersonIds :
          EvaluationOf(id) =>
              LET before == DwellStart(person_profiles, id)
                  after == DwellStart(person_profiles', id)
                  o == Last(obs_log'[id])
              IN  /\ (after # NoTime /\ after # before)
                       => (o.in_zone /\ before = NoTime /\ after = o.time)
                  /\ (o.in_zone /\ before # NoTime)
                       => /\ after = before
                          /\ o.contrib.time = DwellStep(o.time - before)]_vars

\* C22 witness: an identity evaluated in HEAVY_MACHINERY and next in
\* LOADING_DOCK, its dwell-start still the time of the first of the two and
\* its dwell-time factor counted from it
C22_FromOneZoneIntoAnother ==
    \E id \in DOMAIN person_profiles :
        LET log == obs_log[id]
            n == Len(log)
        IN  /\ n >= 2
            /\ Len(person_profiles[id].times) = n
            /\ log[n - 1].in_zone /\ log[n - 1].zone = "HEAVY_MACHINERY"
            /\ log[n].in_zone /\ log[n].zone = "LOADING_DOCK"
            /\ (n > 2 => ~log[n - 2].in_zone)
            /\ person_profiles[id].first_danger_time = log[n - 1].time
            /\ log[n].time - log[n - 1].time = Seconds(5)
            /\ log[n].contrib.time = 15

====
